---- MODULE Spec2Model ----
(***************************************************************************)
(* Model of the project overview web part's DataAdapter                    *)
(* (projectOverview/data-adapter/index.ts) and of the StatusColumn         *)
(* component (projectOverview/components/StatusColumn/index.tsx).          *)
(*                                                                         *)
(* JavaScript runs one synchronous segment at a time: every action below   *)
(* is one such segment (from a call or a settled await up to the next      *)
(* await).  Strings that are formatted or compared piecewise are sequences *)
(* of tokens (words, digits, "_", "{", "}").  A nullable value is the      *)
(* empty sequence (null / undefined) or a one-element sequence.            *)
(***************************************************************************)
EXTENDS Integers, Sequences, FiniteSets, TLC

VARIABLES
    cacheOptions,      \* DataAdapter.cacheOptions: Null or <<[expiration, key]>>
    site,              \* DataAdapter.site: Null or <<url>>
    current,           \* DataAdapter.current: Null or <<Portfolio>>
    cacheKeys,         \* DataAdapter.cacheKeys: sequence of cache keys
    usingCachingArgs,  \* the {expiration, alias} of the last usingCaching call
    usingCachingCalls, \* how many times usingCaching was called
    calls,             \* the fetchData invocations: position, locals, requests issued
    portfoliosCall,    \* the getPortfolios invocation: position and result
    input,             \* the input of the pure transformations (data specification)
    output             \* their output

vars == <<cacheOptions, site, current, cacheKeys, usingCachingArgs,
          usingCachingCalls, calls, portfoliosCall, input, output>>

adapterVars == <<cacheOptions, site, current, cacheKeys, usingCachingArgs,
                 usingCachingCalls, calls, portfoliosCall>>

Null == <<>>

Some(x) == <<x>>

----------------------------------------------------------------------------
(* Bounds of the model *)

\* number of fetchData invocations (they may overlap)
MaxCalls == 2

\* number of usingCaching calls
MaxUsingCaching == 1

\* longest project list / search result / column configuration list drawn
MaxItems == 2

\* longest term set drawn
MaxTerms == 3

\* number of project status items in the status list drawn
MaxStatus == 3

\* longest list of status sections rendered
MaxSections == 2

CallIds == 1..MaxCalls

----------------------------------------------------------------------------
(* Strings and string-format *)

DigitChars == <<"0", "1", "2", "3", "4", "5", "6", "7", "8", "9">>

\* String(n) of a non-negative integer below 100
NumberToString(n) ==
    IF n < 10 THEN <<DigitChars[n + 1]>>
    ELSE <<DigitChars[(n \div 10) + 1], DigitChars[(n % 10) + 1]>>

\* the tail of the template literal `${alias}_{0}_{1}`
KeyTemplateTail == <<"_", "{", "0", "}", "_", "{", "1", "}">>

RECURSIVE FormatFrom(_, _, _)
\* string-format's single left-to-right pass: "{{" and "}}" are escapes of a
\* brace, "{n}" is replaced by the n-th argument (inserted text is not
\* scanned again), everything else is copied.
FormatFrom(template, i, args) ==
    IF i > Len(template) THEN <<>>
    ELSE IF /\ i + 1 <= Len(template)
            /\ template[i] \in {"{", "}"}
            /\ template[i + 1] = template[i]
         THEN <<template[i]>> \o FormatFrom(template, i + 2, args)
    ELSE IF /\ i + 2 <= Len(template)
            /\ template[i] = "{"
            /\ template[i + 1] \in {"0", "1"}
            /\ template[i + 2] = "}"
         THEN args[IF template[i + 1] = "0" THEN 1 ELSE 2]
                  \o FormatFrom(template, i + 3, args)
    ELSE <<template[i]>> \o FormatFrom(template, i + 1, args)

format(template, args) == FormatFrom(template, 1, args)

\* the request names passed to getCacheOptions, as strings
KeyName(req) ==
    CASE req = "phase_term_set_id" -> <<"phase", "_", "term", "_", "set", "_", "id">>
      [] req = "projects" -> <<"projects">>
      [] req = "project_status" -> <<"project", "_", "status">>
      [] req = "column_configuration" -> <<"column", "_", "configuration">>
      [] req = "status_sections" -> <<"status", "_", "sections">>

\* the requests that go through getCacheOptions, in source order
CachedRequests ==
    <<"phase_term_set_id", "projects", "project_status", "column_configuration",
      "status_sections">>

\* the requests of the Promise.all, in source order
ParallelRequests ==
    <<"search", "projects", "project_status", "column_configuration",
      "status_sections", "phase_terms">>

Range(s) == {s[i] : i \in DOMAIN s}

----------------------------------------------------------------------------
(* JavaScript values *)

\* an object literal {} (a map from property names to values)
EmptyObject == [k \in {} |-> Null]

\* obj[k]: Null (undefined) when the property is absent
Get(obj, k) == IF k \in DOMAIN obj THEN Some(obj[k]) ELSE Null

\* obj[k] = v
Put(obj, k, v) == [x \in (DOMAIN obj) \cup {k} |-> IF x = k THEN v ELSE obj[x]]

\* truthiness of a nullable string: undefined and '' are falsy
TruthyString(v) == v # Null /\ v[1] # ""

\* truthiness of a nullable number: undefined and 0 are falsy
TruthyNumber(v) == v # Null /\ v[1] # 0

\* truthiness of a nullable boolean
TruthyBoolean(v) == v # Null /\ v[1]

Min(a, b) == IF a <= b THEN a ELSE b

Greatest(S) == CHOOSE x \in S : \A y \in S : y <= x

Least(S) == CHOOSE x \in S : \A y \in S : x <= y

\* .top(n) of a list query
Top(items, n) == SubSeq(items, 1, Min(Len(items), n))

\* .top(500) of the projects, project status and column configuration queries
ItemsTop == 500

\* .top(10) of the status sections query
SectionsTop == 10

RECURSIVE OrderByIdDesc(_)
\* .orderBy('Id', false) of a list: the items by descending Id
OrderByIdDesc(list) ==
    IF list = {} THEN <<>>
    ELSE LET newest == CHOOSE x \in list : \A y \in list : y.Id <= x.Id
         IN <<newest>> \o OrderByIdDesc(list \ {newest})

----------------------------------------------------------------------------
(* The models of ../models, as fetchData uses them *)

\* new Portfolio(item)
Portfolio(item) == [id |-> item.ID, title |-> item.Title, url |-> item.URL]

\* new ProjectStatusModel(item, columnConfigurations, statusSections)
ProjectStatusModel(item, columnConfigurations, statusSections) ==
    [siteId |-> item.GtSiteId, item |-> item,
     columnConfigurations |-> columnConfigurations,
     statusSections |-> statusSections]

\* new ProjectModel(item, status)
ProjectModel(item, status) ==
    [siteId |-> item.GtSiteId, item |-> item, status |-> status, title |-> Null]

\* project.setTitle(title), which returns the project
setTitle(project, title) == [project EXCEPT !.title = Some(title)]

----------------------------------------------------------------------------
(* The pure parts of the adapter *)

RECURSIVE ReduceSites(_, _, _)
ReduceSites(results, i, obj) ==
    IF i > Len(results) THEN obj
    ELSE ReduceSites(results, i + 1, Put(obj, results[i].SiteId, results[i].Title))

\* searchSitesInHub: PrimarySearchResults.reduce(...) into { SiteId: Title }
SitesOfSearchResults(results) == ReduceSites(results, 1, EmptyObject)

RECURSIVE ReduceColumns(_, _, _)
ReduceColumns(items, i, obj) ==
    IF i > Len(items) THEN obj
    ELSE LET item == items[i]
             key == item.GtPortfolioColumn.GtInternalName
             entry == IF key \in DOMAIN obj THEN obj[key]
                      ELSE [name |-> Null, colors |-> EmptyObject]
             name == IF TruthyString(entry.name) THEN entry.name
                     ELSE Some(item.GtPortfolioColumn.Title)
             colors == Put(entry.colors, item.GtPortfolioColumnValue,
                           item.GtPortfolioColumnColor)
         IN ReduceColumns(items, i + 1,
                          Put(obj, key, [name |-> name, colors |-> colors]))

\* variant of the reduce that assigns name on every item (no `obj[key].name ||`)
ColumnConfigurationsLastTitle(items) ==
    LET obj == ReduceColumns(items, 1, EmptyObject)
    IN [k \in DOMAIN obj |->
           [name |-> Some(items[Greatest({i \in DOMAIN items :
                              items[i].GtPortfolioColumn.GtInternalName = k})]
                              .GtPortfolioColumn.Title),
            colors |-> obj[k].colors]]

\* getColumnConfigurations: items.reduce(...) into { internal name: {name, colors} }
ColumnConfigurationsOfItems(items) == ReduceColumns(items, 1, EmptyObject)

\* fetchData: _status.map(item => new ProjectStatusModel(...))
StatusModels(_status, _columnConfigurations, _statusSections) ==
    [i \in DOMAIN _status |->
        ProjectStatusModel(_status[i], _columnConfigurations, _statusSections)]

\* variant of the mapping that tests `_sites[project.siteId] === undefined`
MapProjectKeyPresent(item, status, _sites) ==
    LET project == ProjectModel(item,
                       SelectSeq(status, LAMBDA s : s.siteId = item.GtSiteId))
    IN IF Get(_sites, project.siteId) = Null THEN Null
       ELSE Some(setTitle(project, _sites[project.siteId]))

\* variant of the mapping that hands every status item to every project
MapProjectAnyStatus(item, status, _sites) ==
    LET project == ProjectModel(item, status)
    IN IF ~TruthyString(Get(_sites, project.siteId)) THEN Null
       ELSE Some(setTitle(project, _sites[project.siteId]))

\* fetchData: one mapped project, null when the hub search has no title for it
MapProject(item, status, _sites) ==
    LET project == ProjectModel(item,
                       SelectSeq(status, LAMBDA s : s.siteId = item.GtSiteId))
    IN IF ~TruthyString(Get(_sites, project.siteId)) THEN Null
       ELSE Some(setTitle(project, _sites[project.siteId]))

\* fetchData: _projects.map(...).filter(p => p)
ProjectsOf(_projects, status, _sites) ==
    LET mapped == [i \in DOMAIN _projects |-> MapProject(_projects[i], status, _sites)]
        kept == SelectSeq(mapped, LAMBDA p : p # Null)
    IN [i \in DOMAIN kept |-> kept[i][1]]

\* variant of the filter that keeps a phase only when ShowOnFrontpage === 'true'
PhasesOfOnlyTrue(_phases) ==
    LET kept == SelectSeq(_phases,
                    LAMBDA p : p.LocalCustomProperties.ShowOnFrontpage = Some("true"))
    IN [i \in DOMAIN kept |->
           [Name |-> kept[i].Name,
            LocalCustomProperties |-> kept[i].LocalCustomProperties]]

\* fetchData: the kept phases, each picked down to Name and LocalCustomProperties
PhasesOf(_phases) ==
    LET kept == SelectSeq(_phases,
                    LAMBDA p : p.LocalCustomProperties.ShowOnFrontpage # Some("false"))
    IN [i \in DOMAIN kept |->
           [Name |-> kept[i].Name,
            LocalCustomProperties |-> kept[i].LocalCustomProperties]]

\* fetchData, lines 135-155: the result built from the six responses
FetchResult(_sites, _projects, _status, _columnConfigurations, _sections, _phases) ==
    LET status == StatusModels(_status, _columnConfigurations, _sections)
    IN [projects |-> ProjectsOf(_projects, status, _sites),
        phases |-> PhasesOf(_phases)]

\* StatusColumn: the rendered element
StatusColumn(status, properties) ==
    [hidden |-> ~TruthyBoolean(properties.showTooltip),
     icons |-> [i \in DOMAIN status.sections |->
                  [key |-> status.sections[i].fieldName,
                   iconName |-> status.sections[i].iconName,
                   color |-> status.sections[i].color,
                   paddingRight |-> IF TruthyNumber(properties.columnIconGap)
                                    THEN properties.columnIconGap[1] ELSE 8,
                   fontSize |-> properties.columnIconSize]]]

----------------------------------------------------------------------------
(* The SharePoint side: what the requests of the adapter answer *)

\* the items of the portfolio configuration list (CONFIG_LIST_NAME)
ConfigListItems ==
    <<[ID |-> 1, Title |-> "Portfolio A", URL |-> "urlA"],
      [ID |-> 12, Title |-> "Portfolio B", URL |-> "urlB"]>>

Portfolios == {Portfolio(ConfigListItems[i]) : i \in DOMAIN ConfigListItems}

\* site.select('Id').get()
SiteIdOf(url) == IF url = "urlA" THEN "hubA" ELSE "hubB"

\* the TermSetId of the phase field of the current web
PhaseFieldTermSetId == "phaseTermSet"

\* PrimarySearchResults of the hub search for DepartmentId:{siteId}
HubSearchResults(siteId) ==
    IF siteId = "hubA"
    THEN <<[SiteId |-> "p1", Title |-> "Project 1"], [SiteId |-> "p2", Title |-> ""]>>
    ELSE <<[SiteId |-> "p3", Title |-> "Project 3"]>>

\* the items of the projects list of a portfolio site
ProjectsList(url) ==
    IF url = "urlA"
    THEN <<[Id |-> 1, GtSiteId |-> "p1"], [Id |-> 2, GtSiteId |-> "p2"],
           [Id |-> 3, GtSiteId |-> "p9"]>>
    ELSE <<[Id |-> 1, GtSiteId |-> "p3"]>>

\* the items of the project status list of a portfolio site
ProjectStatusList(url) ==
    IF url = "urlA"
    THEN {[Id |-> 1, GtSiteId |-> "p1"], [Id |-> 2, GtSiteId |-> "p2"],
          [Id |-> 3, GtSiteId |-> "p1"]}
    ELSE {[Id |-> 1, GtSiteId |-> "p3"]}

\* the items of the column configuration list whose column starts with GtStatus
ColumnConfigurationList(url) ==
    IF url = "urlA"
    THEN <<[GtPortfolioColumn |-> [Title |-> "Risk", GtInternalName |-> "GtStatusRisk"],
            GtPortfolioColumnValue |-> "High", GtPortfolioColumnColor |-> "red"]>>
    ELSE <<>>

\* the items of the status sections list of a portfolio site
StatusSectionsList(url) ==
    IF url = "urlA" THEN <<[GtSecFieldName |-> "GtStatusRisk", GtSecIcon |-> "Warning"]>>
    ELSE <<>>

\* the terms of a term set
TermSetTerms(termSetId) ==
    <<[Id |-> 1, Name |-> "Plan", LocalCustomProperties |-> [ShowOnFrontpage |-> Null]],
      [Id |-> 2, Name |-> "Closed",
       LocalCustomProperties |-> [ShowOnFrontpage |-> Some("false")]]>>

\* the arguments usingCaching is called with: an alias is a string, which
\* may itself hold a format field
UsingCachingArguments ==
    {[expiration |-> 15, alias |-> <<"po">>],
     [expiration |-> 30, alias |-> <<"po", "{", "1", "}">>]}

----------------------------------------------------------------------------
(* The adapter *)

\* a request on the wire, with the caching options it was issued with, the
\* portfolio id getCacheOptions read for them and the usingCaching arguments
\* in force
Request(req, target, arg) ==
    [req |-> req, target |-> target, arg |-> arg, options |-> Null,
     portfolioId |-> Null, configured |-> Null]

\* variant of the field initialiser that starts with default caching options
DefaultCacheOptions == Some([expiration |-> 15, key |-> <<"po">> \o KeyTemplateTail])

\* private cacheOptions: ICachingOptions = null
InitialCacheOptions == Null

IdleCall ==
    [pc |-> "idle", config |-> Null, siteId |-> Null, termSetId |-> Null,
     issued |-> <<>>, failed |-> Null, error |-> "", result |-> Null]

\* usingCaching({ expiration, alias })
usingCachingOptions(expiration, alias) ==
    [expiration |-> expiration, key |-> alias \o KeyTemplateTail]

\* variant of getCacheOptions that writes the key into this.cacheOptions
\* instead of spreading it into a new object
getCacheOptionsInPlace(self, key) ==
    LET cacheKey == format(self.cacheOptions[1].key,
                           <<NumberToString(current[1].id), KeyName(key)>>)
        written == [expiration |-> self.cacheOptions[1].expiration, key |-> cacheKey]
    IN [cacheOptions |-> Some(written),
        cacheKeys |-> Append(self.cacheKeys, cacheKey),
        options |-> written]

\* variant of getCacheOptions that records a key only when it is new
getCacheOptionsOnce(self, key) ==
    LET cacheKey == format(self.cacheOptions[1].key,
                           <<NumberToString(current[1].id), KeyName(key)>>)
    IN [cacheOptions |-> self.cacheOptions,
        cacheKeys |-> IF cacheKey \in Range(self.cacheKeys) THEN self.cacheKeys
                      ELSE Append(self.cacheKeys, cacheKey),
        options |-> [expiration |-> self.cacheOptions[1].expiration,
                     key |-> cacheKey]]

\* getCacheOptions(key) on the adapter fields self = [cacheOptions, cacheKeys]
\* (with a non-null cacheOptions): the fields after the call, and the
\* options returned
getCacheOptions(self, key) ==
    LET cacheKey == format(self.cacheOptions[1].key,
                           <<NumberToString(current[1].id), KeyName(key)>>)
    IN [cacheOptions |-> self.cacheOptions,
        cacheKeys |-> Append(self.cacheKeys, cacheKey),
        options |-> [expiration |-> self.cacheOptions[1].expiration,
                     key |-> cacheKey]]

\* a request issued with .usingCaching(this.getCacheOptions(req))
CachedRequest(req, target, got) ==
    [req |-> req, target |-> target, arg |-> "", options |-> Some(got.options),
     portfolioId |-> Some(current[1].id), configured |-> usingCachingArgs]

\* variant that tolerates a failed status sections request (Promise.allSettled)
PromiseAllTolerant(firstFailure) ==
    IF firstFailure \in {Null, Some("status_sections")} THEN "resolved" ELSE "rejected"

\* Promise.all over the parallel requests: rejects with the first rejection
PromiseAll(firstFailure) == IF firstFailure = Null THEN "resolved" ELSE "rejected"

Reject(call, req, error) ==
    [call EXCEPT !.pc = "rejected", !.failed = req, !.error = error]

TargetOf(call, req) ==
    LET i == CHOOSE j \in DOMAIN call.issued : call.issued[j].req = req
    IN call.issued[i].target

\* the six responses of a call whose parallel requests all succeeded
ResultOf(call) ==
    FetchResult(
        SitesOfSearchResults(Top(HubSearchResults(call.siteId[1]), ItemsTop)),
        Top(ProjectsList(TargetOf(call, "projects")), ItemsTop),
        Top(OrderByIdDesc(ProjectStatusList(TargetOf(call, "project_status"))), ItemsTop),
        ColumnConfigurationsOfItems(
            Top(ColumnConfigurationList(TargetOf(call, "column_configuration")), ItemsTop)),
        Top(StatusSectionsList(TargetOf(call, "status_sections")), SectionsTop),
        TermSetTerms(call.termSetId[1]))

\* usingCaching({ expiration, alias }), called at most MaxUsingCaching times
usingCaching(expiration, alias) ==
    /\ usingCachingCalls < MaxUsingCaching
    /\ usingCachingCalls' = usingCachingCalls + 1
    /\ cacheOptions' = Some(usingCachingOptions(expiration, alias))
    /\ usingCachingArgs' = Some([expiration |-> expiration, alias |-> alias])
    /\ UNCHANGED <<site, current, cacheKeys, calls, portfoliosCall, input, output>>

\* getPortfolios up to its await
getPortfolios ==
    /\ portfoliosCall.pc \in {"idle", "rejected"}
    /\ portfoliosCall' = [pc |-> "pending", result |-> Null]
    /\ UNCHANGED <<cacheOptions, site, current, cacheKeys, usingCachingArgs,
                   usingCachingCalls, calls, input, output>>

\* getPortfolios after its await
getPortfoliosSettled(ok) ==
    /\ portfoliosCall.pc = "pending"
    /\ portfoliosCall' =
           IF ok
           THEN [pc |-> "resolved",
                 result |-> Some([i \in DOMAIN ConfigListItems |->
                                     Portfolio(ConfigListItems[i])])]
           ELSE [pc |-> "rejected", result |-> Null]
    /\ UNCHANGED <<cacheOptions, site, current, cacheKeys, usingCachingArgs,
                   usingCachingCalls, calls, input, output>>

\* fetchData(config), lines 95-98: up to the await of the site id
fetchData(c, config) ==
    /\ calls[c].pc = "idle"
    /\ \A b \in CallIds : b < c => calls[b].pc # "idle"  \* invocations are numbered in call order
    /\ current' = Some(config)
    /\ site' = Some(config.url)
    /\ calls' = [calls EXCEPT ![c] =
                    [calls[c] EXCEPT !.pc = "awaitSiteId", !.config = Some(config),
                                     !.issued = <<Request("site_id", config.url, "")>>]]
    /\ UNCHANGED <<cacheOptions, cacheKeys, usingCachingArgs, usingCachingCalls,
                   portfoliosCall, input, output>>

\* fetchData, lines 98-99: the site id arrives, getPhaseFieldTermSetId is called
fetchDataSiteId(c, ok) ==
    LET call == calls[c]
        siteId == Some(SiteIdOf(call.issued[1].target))
    IN
    /\ call.pc = "awaitSiteId"
    /\ IF ~ok
       THEN /\ calls' = [calls EXCEPT ![c] =
                            Reject(call, Some("site_id"), "RequestFailed")]
            /\ UNCHANGED <<cacheOptions, cacheKeys>>
       ELSE IF cacheOptions = Null
       THEN \* this.cacheOptions.key throws a TypeError before the push
            /\ calls' = [calls EXCEPT ![c] =
                            Reject([call EXCEPT !.siteId = siteId], Null, "TypeError")]
            /\ UNCHANGED <<cacheOptions, cacheKeys>>
       ELSE LET got == getCacheOptions([cacheOptions |-> cacheOptions,
                                        cacheKeys |-> cacheKeys], "phase_term_set_id")
            IN /\ cacheOptions' = got.cacheOptions
               /\ cacheKeys' = got.cacheKeys
               /\ calls' = [calls EXCEPT ![c] =
                      [call EXCEPT !.pc = "awaitTermSetId",
                                   !.siteId = siteId,
                                   !.issued = Append(call.issued,
                                       CachedRequest("phase_term_set_id", "sp.web", got))]]
    /\ UNCHANGED <<site, current, usingCachingArgs, usingCachingCalls, portfoliosCall,
                   input, output>>

\* fetchData, lines 99-132: the term set id arrives, the six parallel
\* requests are issued.  cacheOptions is not null here: the call passed
\* getPhaseFieldTermSetId, and nothing sets the field back to null.
fetchDataTermSetId(c, ok) ==
    LET call == calls[c] IN
    /\ call.pc = "awaitTermSetId"
    /\ IF ~ok
       THEN /\ calls' = [calls EXCEPT ![c] =
                            Reject(call, Some("phase_term_set_id"), "RequestFailed")]
            /\ UNCHANGED <<cacheOptions, cacheKeys>>
       ELSE LET url == site[1]
                termSetId == PhaseFieldTermSetId
                g1 == getCacheOptions([cacheOptions |-> cacheOptions,
                                       cacheKeys |-> cacheKeys], "projects")
                g2 == getCacheOptions(g1, "project_status")
                g3 == getCacheOptions(g2, "column_configuration")
                g4 == getCacheOptions(g3, "status_sections")
            IN /\ cacheOptions' = g4.cacheOptions
               /\ cacheKeys' = g4.cacheKeys
               /\ calls' = [calls EXCEPT ![c] =
                      [call EXCEPT !.pc = "awaitAll",
                                   !.termSetId = Some(termSetId),
                                   !.issued = call.issued \o
                                      <<Request("search", "sp.search", call.siteId[1]),
                                        CachedRequest("projects", url, g1),
                                        CachedRequest("project_status", url, g2),
                                        CachedRequest("column_configuration", url, g3),
                                        CachedRequest("status_sections", url, g4),
                                        Request("phase_terms", "taxonomy", termSetId)>>]]
    /\ UNCHANGED <<site, current, usingCachingArgs, usingCachingCalls, portfoliosCall,
                   input, output>>

\* fetchData, lines 111-155: the Promise.all settles and the result is built
fetchDataSettled(c, firstFailure) ==
    LET call == calls[c]
        \* which of the six requests failed is not kept, only that one did
        failed == IF firstFailure = Null THEN Null ELSE Some("Promise.all")
    IN
    /\ call.pc = "awaitAll"
    /\ calls' = [calls EXCEPT ![c] =
           IF PromiseAll(firstFailure) = "rejected"
           THEN Reject(call, failed, "RequestFailed")
           ELSE [call EXCEPT !.pc = "resolved", !.failed = failed,
                             !.result = Some(ResultOf(call))]]
    /\ UNCHANGED <<cacheOptions, site, current, cacheKeys, usingCachingArgs,
                   usingCachingCalls, portfoliosCall, input, output>>

Init ==
    /\ cacheOptions = InitialCacheOptions
    /\ site = Null
    /\ current = Null
    /\ cacheKeys = <<>>
    /\ usingCachingArgs = Null
    /\ usingCachingCalls = 0
    /\ calls = [c \in CallIds |-> IdleCall]
    /\ portfoliosCall = [pc |-> "idle", result |-> Null]
    /\ input = Null
    /\ output = Null

Next ==
    \/ \E a \in UsingCachingArguments : usingCaching(a.expiration, a.alias)
    \/ getPortfolios
    \/ \E ok \in BOOLEAN : getPortfoliosSettled(ok)
    \/ \E c \in CallIds :
          \* the portfolio to fetch is one that getPortfolios returned
          /\ portfoliosCall.pc = "resolved"
          /\ \E config \in Range(portfoliosCall.result[1]) : fetchData(c, config)
    \/ \E c \in CallIds, ok \in BOOLEAN : fetchDataSiteId(c, ok)
    \/ \E c \in CallIds, ok \in BOOLEAN : fetchDataTermSetId(c, ok)
    \/ \E c \in CallIds, f \in {Null} \cup {Some(r) : r \in Range(ParallelRequests)} :
           fetchDataSettled(c, f)

Spec == Init /\ [][Next]_vars

----------------------------------------------------------------------------
(* Properties of the adapter *)

CachedIssued(c) == SelectSeq(calls[c].issued, LAMBDA e : e.options # Null)

AllCached == UNION {Range(CachedIssued(c)) : c \in CallIds}

PlainAlias(alias) == \A i \in DOMAIN alias : alias[i] \notin {"{", "}"}

ExpectedKey(alias, id, req) ==
    alias \o <<"_">> \o NumberToString(id) \o <<"_">> \o KeyName(req)

TemplateUnchanged ==
    cacheOptions =
        IF usingCachingArgs = Null THEN Null
        ELSE Some([expiration |-> usingCachingArgs[1].expiration,
                   key |-> usingCachingArgs[1].alias \o KeyTemplateTail])

KeysInjective ==
    \A e1, e2 \in AllCached :
        (e1.portfolioId # e2.portfolioId \/ e1.req # e2.req)
            => e1.options[1].key # e2.options[1].key

RequestsOf(c) == [i \in DOMAIN calls[c].issued |-> calls[c].issued[i].req]

AllRequests == <<"site_id", "phase_term_set_id">> \o ParallelRequests

\* C5: every request of a fetchData call is issued at most once, a call whose
\* request failed is rejected and has no result, and only a call whose eight
\* requests were all issued and all succeeded has a result.
C5_AllOrNothing ==
    \A c \in CallIds :
        LET call == calls[c] IN
        /\ \A i, j \in DOMAIN call.issued :
              call.issued[i].req = call.issued[j].req => i = j
        /\ call.failed # Null => call.pc = "rejected"
        /\ call.pc = "rejected" => call.result = Null
        /\ call.result # Null =>
              /\ call.pc = "resolved"
              /\ call.failed = Null
              /\ RequestsOf(c) = AllRequests

C5_Witness ==
    \E c \in CallIds :
        /\ calls[c].pc = "rejected"
        /\ calls[c].failed = Some("Promise.all")
        /\ RequestsOf(c) = AllRequests

ListRequests ==
    {"projects", "project_status", "column_configuration", "status_sections"}

\* C8: every cache key of a fetchData(config) call is built from config.id, every
\* list is read from the site at config.url, and the hub search is given the Id
\* of that site, also when calls overlap.
C8_OwnPortfolio ==
    \A c \in CallIds :
        \A i \in DOMAIN calls[c].issued :
            LET e == calls[c].issued[i]
                config == calls[c].config[1]
            IN /\ e.options # Null => e.portfolioId = Some(config.id)
               /\ e.req \in ListRequests => e.target = config.url
               /\ e.req = "search" => e.arg = SiteIdOf(config.url)

\* C9: while usingCaching was never called, a fetchData call that got its site
\* id is rejected by the TypeError of the first cache key, has issued only the
\* site id request, has no result, and cacheKeys is empty; getPortfolios
\* resolves with the portfolios all the same.
C9_NoCachingConfigured ==
    usingCachingCalls = 0 =>
        /\ cacheKeys = <<>>
        /\ \A c \in CallIds :
              LET call == calls[c] IN
              /\ call.result = Null
              /\ call.pc \in {"idle", "awaitSiteId", "rejected"}
              /\ call.siteId # Null =>
                    /\ call.pc = "rejected"
                    /\ call.error = "TypeError"
                    /\ RequestsOf(c) = <<"site_id">>
        /\ portfoliosCall.pc = "resolved" =>
              portfoliosCall.result =
                  Some([i \in DOMAIN ConfigListItems |-> Portfolio(ConfigListItems[i])])

C9_Witness ==
    /\ usingCachingCalls = 0
    /\ portfoliosCall.pc = "resolved"
    /\ \E c \in CallIds : calls[c].error = "TypeError"

IsPrefix(s, t) == Len(s) <= Len(t) /\ SubSeq(t, 1, Len(s)) = s

KeysOf(entries) ==
    LET cached == SelectSeq(entries, LAMBDA e : e.options # Null)
    IN [i \in DOMAIN cached |-> cached[i].options[1].key]

RECURSIVE NewKeys(_, _, _)
\* the keys of the requests issued between two states, call by call
NewKeys(before, after, c) ==
    IF c > MaxCalls THEN <<>>
    ELSE KeysOf(SubSeq(after[c].issued, Len(before[c].issued) + 1,
                       Len(after[c].issued)))
             \o NewKeys(before, after, c + 1)

CachedOrder ==
    \A c \in CallIds :
        LET names == [i \in DOMAIN CachedIssued(c) |-> CachedIssued(c)[i].req] IN
        /\ IsPrefix(names, CachedRequests)
        /\ IsPrefix(RequestsOf(c), AllRequests)
        /\ calls[c].pc = "resolved" => names = CachedRequests
        /\ Len(calls[c].issued) > 2 => calls[c].termSetId # Null

----------------------------------------------------------------------------
(* The pure transformations on drawn inputs *)

SeqsUpTo(S, n) == UNION {[1..k -> S] : k \in 0..n}

HubSiteIds == {"p1", "p2"}

SearchRows == [SiteId : HubSiteIds, Title : {"", "T1"}]

\* project lists: the item at position i has Id i
ProjectLists ==
    {[i \in DOMAIN g |-> [Id |-> i, GtSiteId |-> g[i]]] :
        g \in SeqsUpTo(HubSiteIds \cup {"p3"}, MaxItems)}

\* project status lists: items with distinct Ids
StatusLists ==
    UNION {{{[Id |-> i, GtSiteId |-> f[i]] : i \in D} : f \in [D -> HubSiteIds]} :
              D \in SUBSET (1..MaxStatus)}

Terms ==
    [Id : {7}, Name : {"Plan", "Run"},
     LocalCustomProperties :
         [ShowOnFrontpage : {Null, Some("false"), Some("true"), Some("False")}]]

ColumnItems ==
    [GtPortfolioColumn : [Title : {"", "T1", "T2"},
                          GtInternalName : {"GtStatusRisk", "GtStatusTime"}],
     GtPortfolioColumnValue : {"v1", "v2"},
     GtPortfolioColumnColor : {"red", "green"}]

Sections == [fieldName : {"f1", "f2"}, iconName : {"i1", "i2"}, color : {"red", "green"}]

Properties ==
    [showTooltip : {Null, Some(TRUE), Some(FALSE)},
     columnIconGap : {Null, Some(0), Some(4)},
     columnIconSize : {Some(14)}]

FetchInputs ==
    [kind : {"fetch"}, searchResults : SeqsUpTo(SearchRows, MaxItems),
     projects : ProjectLists, statusList : StatusLists, terms : {<<>>}]
    \cup
    [kind : {"fetch"}, searchResults : {<<>>}, projects : {<<>>}, statusList : {{}},
     terms : SeqsUpTo(Terms, MaxTerms)]

ColumnInputs == [kind : {"columns"}, items : SeqsUpTo(ColumnItems, MaxItems)]

RenderInputs ==
    [kind : {"render"}, sections : SeqsUpTo(Sections, MaxSections),
     properties : Properties]

\* fetchData's Promise.all resolved on the drawn lists: the result is built
buildResult ==
    /\ input.kind = "fetch"
    /\ output = Null
    /\ output' = Some(FetchResult(
                     SitesOfSearchResults(Top(input.searchResults, ItemsTop)),
                     Top(input.projects, ItemsTop),
                     Top(OrderByIdDesc(input.statusList), ItemsTop),
                     EmptyObject, <<>>,
                     input.terms))
    /\ UNCHANGED <<input, adapterVars>>

\* getColumnConfigurations after its await, on the drawn items
reduceColumnConfigurations ==
    /\ input.kind = "columns"
    /\ output = Null
    /\ output' = Some(ColumnConfigurationsOfItems(Top(input.items, ItemsTop)))
    /\ UNCHANGED <<input, adapterVars>>

\* StatusColumn rendered on the drawn status and properties
renderStatusColumn ==
    /\ input.kind = "render"
    /\ output = Null
    /\ output' = Some(StatusColumn([sections |-> input.sections], input.properties))
    /\ UNCHANGED <<input, adapterVars>>

DataInit ==
    /\ cacheOptions = InitialCacheOptions
    /\ site = Null
    /\ current = Null
    /\ cacheKeys = <<>>
    /\ usingCachingArgs = Null
    /\ usingCachingCalls = 0
    /\ calls = [c \in CallIds |-> IdleCall]
    /\ portfoliosCall = [pc |-> "idle", result |-> Null]
    /\ input \in FetchInputs \cup ColumnInputs \cup RenderInputs
    /\ output = Null

DataNext ==
    \/ buildResult
    \/ reduceColumnConfigurations
    \/ renderStatusColumn

DataSpec == DataInit /\ [][DataNext]_vars

----------------------------------------------------------------------------
(* Properties of the pure transformations *)

\* the Title the hub search holds for a site id: that of its last row
HubTitle(rows, siteId) ==
    LET at == {i \in DOMAIN rows : rows[i].SiteId = siteId}
    IN IF at = {} THEN Null ELSE Some(rows[Greatest(at)].Title)

InHub(rows, siteId) == HubTitle(rows, siteId) \notin {Null, Some("")}

\* the position, among the kept indices K, of the index i
Rank(K, i) == Cardinality({k \in K : k <= i})

Built == input # Null /\ input.kind = "fetch" /\ output # Null

\* C1: the returned projects are exactly the project items whose site id the hub
\* search maps to a non-empty Title, in list order, each with that Title; an
\* item whose site id is absent or maps to an empty Title is not returned.
C1_ProjectsInHub ==
    Built =>
        LET rows == input.searchResults
            projects == input.projects
            out == output[1].projects
            K == {i \in DOMAIN projects : InHub(rows, projects[i].GtSiteId)}
        IN /\ Len(out) = Cardinality(K)
           /\ \A i \in K :
                 /\ out[Rank(K, i)].item = projects[i]
                 /\ out[Rank(K, i)].siteId = projects[i].GtSiteId
                 /\ out[Rank(K, i)].title = HubTitle(rows, projects[i].GtSiteId)

C1_Witness ==
    /\ Built
    /\ Len(input.projects) = 2
    /\ Len(input.searchResults) = 2
    /\ HubTitle(input.searchResults, input.projects[1].GtSiteId) = Some("")
    /\ Len(output[1].projects) = 1
    /\ output[1].projects[1].item = input.projects[2]
    /\ output[1].projects[1].title = Some("T1")

\* C2: the status attached to a returned project is exactly the status list's
\* items of the project's site, newest (highest Id) first; a project of the hub
\* is returned whether or not it has status items.
C2_StatusOfProject ==
    Built =>
        LET projects == input.projects
            out == output[1].projects
        IN /\ \A j \in DOMAIN out :
                 LET status == out[j].status
                     own == {s \in input.statusList :
                                s.GtSiteId = out[j].item.GtSiteId}
                 IN /\ {status[k].item : k \in DOMAIN status} = own
                    /\ Len(status) = Cardinality(own)
                    /\ \A k \in DOMAIN status : status[k].siteId = out[j].item.GtSiteId
                    /\ \A k \in 1..(Len(status) - 1) :
                          status[k].item.Id > status[k + 1].item.Id
           /\ \A i \in DOMAIN projects :
                 InHub(input.searchResults, projects[i].GtSiteId)
                     => \E j \in DOMAIN out : out[j].item = projects[i]

C2_Witness ==
    /\ Built
    /\ Len(output[1].projects) = 2
    /\ Len(output[1].projects[1].status) = 2
    /\ output[1].projects[2].status = <<>>
    /\ Cardinality(input.statusList) = 2

Shown(term) == term.LocalCustomProperties.ShowOnFrontpage # Some("false")

\* C3: the returned phases are exactly the terms whose ShowOnFrontpage is not the
\* string 'false' (unset or any other value is kept), in term set order, each
\* with the term's Name and LocalCustomProperties and nothing else.
C3_PhasesShown ==
    Built =>
        LET terms == input.terms
            out == output[1].phases
            K == {i \in DOMAIN terms : Shown(terms[i])}
        IN /\ Len(out) = Cardinality(K)
           /\ \A i \in K :
                 /\ DOMAIN out[Rank(K, i)] = {"Name", "LocalCustomProperties"}
                 /\ out[Rank(K, i)].Name = terms[i].Name
                 /\ out[Rank(K, i)].LocalCustomProperties = terms[i].LocalCustomProperties

C3_Witness ==
    /\ Built
    /\ Len(input.terms) = 3
    /\ input.terms[1].LocalCustomProperties.ShowOnFrontpage = Some("false")
    /\ input.terms[2].LocalCustomProperties.ShowOnFrontpage = Null
    /\ input.terms[3].LocalCustomProperties.ShowOnFrontpage = Some("False")
    /\ Len(output[1].phases) = 2

Rendered == input # Null /\ input.kind = "render" /\ output # Null

\* C6: StatusColumn renders one icon per section, in order, with the section's
\* iconName and color; the tooltip is hidden exactly when showTooltip is falsy;
\* the right padding is columnIconGap when that is set and 8 otherwise.
C6_Rendering ==
    Rendered =>
        LET out == output[1]
            gap == input.properties.columnIconGap
        IN /\ Len(out.icons) = Len(input.sections)
           /\ \A i \in DOMAIN input.sections :
                 /\ out.icons[i].iconName = input.sections[i].iconName
                 /\ out.icons[i].color = input.sections[i].color
                 /\ out.icons[i].paddingRight = IF gap # Null THEN gap[1] ELSE 8
           /\ out.hidden = (input.properties.showTooltip \in {Null, Some(FALSE)})

Reduced == input # Null /\ input.kind = "columns" /\ output # Null

ItemsOfColumn(items, name) ==
    {i \in DOMAIN items : items[i].GtPortfolioColumn.GtInternalName = name}

ColorsGrouped ==
    LET items == input.items
        out == output[1]
    IN /\ DOMAIN out = {items[i].GtPortfolioColumn.GtInternalName : i \in DOMAIN items}
       /\ \A name \in DOMAIN out :
             LET own == ItemsOfColumn(items, name) IN
             /\ DOMAIN out[name].colors = {items[i].GtPortfolioColumnValue : i \in own}
             /\ \A v \in DOMAIN out[name].colors :
                   out[name].colors[v] =
                       items[Greatest({i \in own : items[i].GtPortfolioColumnValue = v})]
                           .GtPortfolioColumnColor

\* C7 as stated: one entry per distinct internal name, named by the column
\* Title of the first item with that internal name, its colors holding for each
\* value seen under that name the color of the last item with that value.
C7_NameOfFirstItem ==
    Reduced =>
        /\ ColorsGrouped
        /\ \A name \in DOMAIN output[1] :
              output[1][name].name =
                  Some(input.items[Least(ItemsOfColumn(input.items, name))]
                           .GtPortfolioColumn.Title)

\* C7 amended: one entry per distinct internal name, named by the first
\* non-empty column Title among the items with that internal name (the empty
\* string when all are empty), its colors holding for each value seen under that
\* name the color of the last item with that value.
C7_NameOfFirstTitledItem ==
    Reduced =>
        /\ ColorsGrouped
        /\ \A name \in DOMAIN output[1] :
              LET titled == {i \in ItemsOfColumn(input.items, name) :
                                input.items[i].GtPortfolioColumn.Title # ""}
              IN output[1][name].name =
                     IF titled = {} THEN Some("")
                     ELSE Some(input.items[Least(titled)].GtPortfolioColumn.Title)

C7_Witness ==
    /\ Reduced
    /\ Len(input.items) = 2
    /\ input.items[1].GtPortfolioColumn.GtInternalName = "GtStatusRisk"
    /\ input.items[2].GtPortfolioColumn.GtInternalName = "GtStatusRisk"
    /\ input.items[1].GtPortfolioColumn.Title = ""
    /\ input.items[2].GtPortfolioColumn.Title = "T2"
    /\ input.items[1].GtPortfolioColumnValue = input.items[2].GtPortfolioColumnValue
    /\ input.items[1].GtPortfolioColumnColor # input.items[2].GtPortfolioColumnColor
    /\ output[1]["GtStatusRisk"].name = Some("T2")

====
